---- MODULE Spec2Model ----
(***************************************************************************)
(* Model of the Pong game of src/game.js (PongGame, BallManager,           *)
(* GameObjectManager, GameUtils) running on the Kaboom engine.             *)
(*                                                                         *)
(* Representation.  Lengths are integers in 1/PX pixel, velocity           *)
(* components are integers in 1/VS (a unit vector has length VS), times    *)
(* are whole seconds.  A move by vel * speed * dt is then the exact        *)
(* integer product vx * speed * dt.  The engine's seeded random generator  *)
(* is the variable rng; every rand()/choose() call advances it.            *)
(***************************************************************************)
EXTENDS Integers, Sequences, FiniteSets, TLC

\* ---------------------------------------------------------------- bounds
MaxTime == 100
MaxScore == 2
MaxMenus == 2
FineUntil == 30
LongUntil == 10

\* ------------------------------------------------------ program constants
headerHeight == 60
InitialSpeed == 600
SpawnSpeed == 600
SpeedIncrement == 80
SpawnInterval == 10
MaxBalls == 10
SpawnInset == 100
PaddleStartGap == 20

\* ------------------------------------------------------- representation
PX == 1000
VS == 1000
RngM == 8

\* Frame deltas dt() (seconds), pointer positions mousePos().y and canvas
\* sizes width() x height() the environment supplies.
DtSet == {5, 10, 20}
MouseYs == {0, 1249 * PX}
Viewports == {<<12080, 2358>>, <<11972, 1648>>, <<11672, 2000>>,
              <<120000, 200000>>}

\* Canvas widths and heights (pixels), header heights (pixels) and pointer
\* positions (1/PX pixel) on which the GameUtils functions are exercised on
\* their own: each side of every breakpoint threshold, and canvases shorter
\* than the header plus one paddle.
WidthSet == {50, 768, 769, 1024, 1025, 1366, 1367, 1920}
HeightSet == {100, 159, 160, 600, 601, 768, 769, 900, 901, 1080}
HeaderHeights == {0, 60, 700}
PointerYs == {-50 * PX, 0, 109 * PX + PX \div 2, 110 * PX, 111 * PX,
              500 * PX, 1000 * PX, 2000 * PX}

VARIABLES
  screenW, screenH,       \* width(), height() of the canvas (pixels)
  rng,                    \* state of the engine's random generator
  frameDt,                \* dt() of the current frame
  gameState, gameMode, gameTime, finalTime, score, lastBallSpawnTime,
  balls,                  \* BallManager.balls: the ball objects it references
  paddles,                \* PongGame.paddles
  strayBalls,             \* live "ball" objects no longer in BallManager.balls
  strayPaddles,           \* live "paddle" objects no longer in PongGame.paddles
  scoreDisplays,          \* live score-display objects (tag "game")
  menuCount,              \* live copies of the menu UI (tag "menu")
  gameOverCount,          \* live copies of the game-over UI (tag "gameOver")
  headerCount,            \* live copies of the header UI (tag "header")
  touching,               \* <<ball index, paddle index>> pairs now colliding
  overCalls,              \* history: onGameOver calls since the last startGame
  hitEvents,              \* history: paddle hits handled since the last startGame
  util                    \* history: the last GameUtils calls and their results

vars == <<screenW, screenH, rng, frameDt, gameState, gameMode, gameTime,
          finalTime, score, lastBallSpawnTime, balls, paddles, strayBalls,
          strayPaddles, scoreDisplays, menuCount, gameOverCount, headerCount,
          touching, overCalls, hitEvents, util>>

\* The fields of PongGame and the scene, without the canvas.
gameVars == <<rng, frameDt, gameState, gameMode, gameTime, finalTime, score,
              lastBallSpawnTime, balls, paddles, strayBalls, strayPaddles,
              scoreDisplays, menuCount, gameOverCount, headerCount, touching,
              overCalls, hitEvents>>

\* The mutable program state as one record, so that a handler is a function
\* from state to state and a callback can run in the middle of a loop.
Cur ==
  [rng |-> rng, frameDt |-> frameDt, gameState |-> gameState,
   gameMode |-> gameMode, gameTime |-> gameTime, finalTime |-> finalTime,
   score |-> score, lastBallSpawnTime |-> lastBallSpawnTime, balls |-> balls,
   paddles |-> paddles, strayBalls |-> strayBalls,
   strayPaddles |-> strayPaddles, scoreDisplays |-> scoreDisplays,
   menuCount |-> menuCount, gameOverCount |-> gameOverCount,
   headerCount |-> headerCount, touching |-> touching,
   overCalls |-> overCalls, hitEvents |-> hitEvents]

Becomes(s) ==
  /\ rng' = s.rng
  /\ frameDt' = s.frameDt
  /\ gameState' = s.gameState
  /\ gameMode' = s.gameMode
  /\ gameTime' = s.gameTime
  /\ finalTime' = s.finalTime
  /\ score' = s.score
  /\ lastBallSpawnTime' = s.lastBallSpawnTime
  /\ balls' = s.balls
  /\ paddles' = s.paddles
  /\ strayBalls' = s.strayBalls
  /\ strayPaddles' = s.strayPaddles
  /\ scoreDisplays' = s.scoreDisplays
  /\ menuCount' = s.menuCount
  /\ gameOverCount' = s.gameOverCount
  /\ headerCount' = s.headerCount
  /\ touching' = s.touching
  /\ overCalls' = s.overCalls
  /\ hitEvents' = s.hitEvents
  /\ UNCHANGED <<screenW, screenH, util>>

\* ------------------------------------------------------------ arithmetic
Max(a, b) == IF a >= b THEN a ELSE b
Min(a, b) == IF a <= b THEN a ELSE b

\* Division rounding toward zero.
TDiv(a, b) == IF a >= 0 THEN a \div b ELSE -((-a) \div b)

\* Integer square root.
ISqrt(n) == CHOOSE r \in 0..(2 * VS) : r * r <= n /\ n < (r + 1) * (r + 1)

\* Vec2.unit(): the vector scaled to length 1 (VS), the zero vector kept.
Unit(v) ==
  LET len == ISqrt(v[1] * v[1] + v[2] * v[2])
  IN IF len = 0 THEN <<0, 0>>
     ELSE <<TDiv(v[1] * VS, len), TDiv(v[2] * VS, len)>>

\* Vec2.fromAngle(deg) = (cos deg, sin deg), for the angles (in half degrees)
\* the generator can produce.
FromAngle(h) ==
  LET a == IF h >= 0 THEN h ELSE -h
      c == CASE a = 0 -> <<1000, 0>>
             [] a = 15 -> <<991, 131>>
             [] a = 30 -> <<966, 259>>
             [] a = 45 -> <<924, 383>>
             [] a = 60 -> <<866, 500>>
  IN IF h >= 0 THEN c ELSE <<c[1], -c[2]>>

\* The engine's generator: a linear congruential step, then the new state
\* over the modulus is the number in [0, 1) that rand() scales.
RngNext(s) == (5 * s + 3) % RngM
Rand(s, a, b) == a + ((s * (b - a)) \div RngM)
Choose2(s, x, y) == IF (2 * s) \div RngM = 0 THEN x ELSE y


\* ------------------------------------------------------ GameUtils (layout)
\* getResponsiveDimensions with the height test of the tablet breakpoint
\* turned round (mutant).
getResponsiveDimensionsFlipped(w, h) ==
  IF w <= 768 \/ h <= 600 THEN "mobile"
  ELSE IF w <= 1024 \/ h >= 768 THEN "tablet"
  ELSE IF w <= 1366 \/ h <= 900 THEN "laptop"
  ELSE "desktop"

\* getResponsiveDimensions: the breakpoint of a canvas of w x h pixels.
getResponsiveDimensions(w, h) ==
  IF w <= 768 \/ h <= 600 THEN "mobile"
  ELSE IF w <= 1024 \/ h <= 768 THEN "tablet"
  ELSE IF w <= 1366 \/ h <= 900 THEN "laptop"
  ELSE "desktop"

\* configs[breakpoint].modalWidth
modalWidth(bp) ==
  CASE bp = "mobile" -> 300 [] bp = "tablet" -> 400
    [] bp = "laptop" -> 450 [] bp = "desktop" -> 500

\* paddleConfigs of constrainPaddlePosition with the laptop entry 120 (mutant).
clampPaddleHeightStale(bp) ==
  CASE bp = "mobile" -> 100 [] bp = "tablet" -> 120
    [] bp = "laptop" -> 120 [] bp = "desktop" -> 160

\* paddleConfigs of constrainPaddlePosition: the height the clamp uses.
clampPaddleHeight(bp) ==
  CASE bp = "mobile" -> 100 [] bp = "tablet" -> 120
    [] bp = "laptop" -> 140 [] bp = "desktop" -> 160

\* paddleConfigs of createPaddles.
paddleConfigs(bp) ==
  CASE bp = "mobile" -> [width |-> 15, height |-> 100, offset |-> 25]
    [] bp = "tablet" -> [width |-> 18, height |-> 120, offset |-> 30]
    [] bp = "laptop" -> [width |-> 20, height |-> 140, offset |-> 35]
    [] bp = "desktop" -> [width |-> 22, height |-> 160, offset |-> 40]

\* ballConfigs of createBall.
ballConfigs(bp) ==
  CASE bp = "mobile" -> 10 [] bp = "tablet" -> 12
    [] bp = "laptop" -> 14 [] bp = "desktop" -> 16

\* What the layout of a canvas of w x h pixels comes to: the breakpoint of
\* getResponsiveDimensions with its modal width, and the sizes the paddle
\* clamp, createPaddles and createBall look up under that breakpoint.
layoutConstants(w, h) ==
  LET bp == getResponsiveDimensions(w, h)
  IN [w |-> w, h |-> h, breakpoint |-> bp, modalWidth |-> modalWidth(bp),
      clampHeight |-> clampPaddleHeight(bp),
      paddleHeight |-> paddleConfigs(bp).height,
      ballRadius |-> ballConfigs(bp)]

\* The record of GameUtils calls right after the page is loaded in a window
\* of w x h pixels.
loaded(w, h) ==
  [op |-> "load", prev |-> layoutConstants(w, h), cur |-> layoutConstants(w, h),
   hh |-> headerHeight, mouseY |-> 0, y |-> 0]

\* constrainPaddlePosition with the pointer taken as the paddle's top (mutant).
constrainPaddlePositionTopAnchored(mouseY, hh, sh, w, h) ==
  LET paddleHeight == clampPaddleHeight(getResponsiveDimensions(w, h))
      minY == (hh * PX) + ((paddleHeight * PX) \div 2)
      maxY == (sh * PX) - ((paddleHeight * PX) \div 2)
  IN Max(minY, Min(maxY, mouseY + ((paddleHeight * PX) \div 2)))

\* constrainPaddlePosition with min and max applied in the other order (mutant).
constrainPaddlePositionMinOuter(mouseY, hh, sh, w, h) ==
  LET paddleHeight == clampPaddleHeight(getResponsiveDimensions(w, h))
      minY == (hh * PX) + ((paddleHeight * PX) \div 2)
      maxY == (sh * PX) - ((paddleHeight * PX) \div 2)
  IN Min(maxY, Max(minY, mouseY))

\* constrainPaddlePosition(mouseY, headerHeight, screenHeight) on a canvas of
\* w x h pixels; mouseY and the result in 1/PX pixel, the heights in pixels.
constrainPaddlePosition(mouseY, hh, sh, w, h) ==
  LET paddleHeight == clampPaddleHeight(getResponsiveDimensions(w, h))
      minY == (hh * PX) + ((paddleHeight * PX) \div 2)
      maxY == (sh * PX) - ((paddleHeight * PX) \div 2)
  IN Max(minY, Min(maxY, mouseY))

\* getRandomSpawnPosition without the final unit() (mutant).
getRandomSpawnPositionNoUnit(s0, hh, gh) ==
  LET s1 == RngNext(s0)
      s2 == RngNext(s1)
      s3 == RngNext(s2)
      spawnSide == Choose2(s1, 0, 1)
      spawnX == IF spawnSide = 0 THEN SpawnInset * PX
                ELSE (screenW - SpawnInset) * PX
      spawnY == ((hh + SpawnInset) * PX)
                + Rand(s2, 0, (gh - hh - 2 * SpawnInset) * PX)
      direction == IF spawnSide = 0 THEN 1 ELSE -1
  IN [x |-> spawnX, y |-> spawnY,
      velocity |-> <<direction * VS, Rand(s3, -(VS \div 2), VS \div 2)>>,
      rng |-> s3]

\* getRandomSpawnPosition(headerHeight, gameHeight) with the generator in
\* state s0: three draws (side, y, vertical component), in this order.
getRandomSpawnPosition(s0, hh, gh) ==
  LET s1 == RngNext(s0)
      s2 == RngNext(s1)
      s3 == RngNext(s2)
      spawnSide == Choose2(s1, 0, 1)
      spawnX == IF spawnSide = 0 THEN SpawnInset * PX
                ELSE (screenW - SpawnInset) * PX
      spawnY == ((hh + SpawnInset) * PX)
                + Rand(s2, 0, (gh - hh - 2 * SpawnInset) * PX)
      direction == IF spawnSide = 0 THEN 1 ELSE -1
  IN [x |-> spawnX, y |-> spawnY,
      velocity |-> Unit(<<direction * VS, Rand(s3, -(VS \div 2), VS \div 2)>>),
      rng |-> s3]

\* ------------------------------------------------------------ BallManager
\* destroyAll that reaches the balls and score displays only (mutant).
DestroyAllGameBallsOnly(s) ==
  [s EXCEPT
     !.balls = [i \in 1..Len(s.balls) |-> [s.balls[i] EXCEPT !.exists = FALSE]],
     !.strayBalls = 0, !.scoreDisplays = 0,
     !.touching = {}]

\* destroyAll("game"): every ball, paddle and score display is destroyed;
\* destroyed objects stay referenced by the arrays that hold them.
DestroyAllGame(s) ==
  [s EXCEPT
     !.balls = [i \in 1..Len(s.balls) |-> [s.balls[i] EXCEPT !.exists = FALSE]],
     !.paddles = [j \in 1..Len(s.paddles) |->
                    [s.paddles[j] EXCEPT !.exists = FALSE]],
     !.strayBalls = 0, !.strayPaddles = 0, !.scoreDisplays = 0,
     !.touching = {}]

\* createBall(x, y, velocity, speed): a new live ball, pushed on this.balls.
createBall(s, x, y, velocity, speed) ==
  LET ballRadius == ballConfigs(getResponsiveDimensions(screenW, screenH))
      ball == [x |-> x, y |-> y, vx |-> velocity[1], vy |-> velocity[2],
               speed |-> speed, radius |-> ballRadius, exists |-> TRUE,
               hits |-> 0]
  IN [s EXCEPT !.balls = Append(s.balls, ball)]

\* createInitialBall(headerHeight): two draws (direction, angle).
createInitialBall(s, hh) ==
  LET s1 == RngNext(s.rng)
      s2 == RngNext(s1)
      startDirection == Choose2(s1, -1, 1)
      startAngle == Rand(s2, -60, 60)
      a == FromAngle(startAngle)
      initialVelocity == Unit(<<a[1] * startDirection, a[2]>>)
  IN createBall([s EXCEPT !.rng = s2],
                (screenW * PX) \div 2,
                (hh * PX) + (((screenH - hh) * PX) \div 2),
                initialVelocity, InitialSpeed)

\* spawnNewBall(headerHeight, gameHeight)
spawnNewBall(s, hh, gh) ==
  LET spawnInfo == getRandomSpawnPosition(s.rng, hh, gh)
  IN createBall([s EXCEPT !.rng = spawnInfo.rng],
                spawnInfo.x, spawnInfo.y, spawnInfo.velocity, SpawnSpeed)

\* reset() that keeps the array (mutant).
resetKeepsBalls(s) == s

\* BallManager.reset(): the array is replaced; live balls it held (if any)
\* stay in the scene.
reset(s) ==
  [s EXCEPT !.strayBalls = s.strayBalls
              + Cardinality({i \in 1..Len(s.balls) : s.balls[i].exists}),
            !.balls = <<>>, !.touching = {}]

\* ------------------------------------------------------ GameObjectManager
createPaddles(s, hh) ==
  LET config == paddleConfigs(getResponsiveDimensions(screenW, screenH))
      y0 == (hh * PX) + ((config.height * PX) \div 2) + (PaddleStartGap * PX)
      mk(x) == [x |-> x * PX, y |-> y0, width |-> config.width * PX,
                height |-> config.height * PX, exists |-> TRUE]
  IN [s EXCEPT !.strayPaddles = s.strayPaddles
                 + Cardinality({j \in 1..Len(s.paddles) : s.paddles[j].exists}),
               !.paddles = <<mk(config.offset), mk(screenW - config.offset)>>]

createScoreDisplay(s) == [s EXCEPT !.scoreDisplays = s.scoreDisplays + 1]


\* ---------------------------------------------------------------- PongGame
\* showMenu(): "game" and "header" objects are destroyed, a menu is added.
showMenu(s) ==
  LET d == DestroyAllGame([s EXCEPT !.gameState = "menu"])
  IN [d EXCEPT !.headerCount = 0, !.menuCount = d.menuCount + 1]

\* createGameObjects()
createGameObjects(s) ==
  createInitialBall(createScoreDisplay(createPaddles(s, headerHeight)),
                    headerHeight)

\* startGame()
startGame(s) ==
  LET r == reset([s EXCEPT !.gameState = "playing", !.gameTime = 0,
                           !.lastBallSpawnTime = 0, !.score = 0,
                           !.overCalls = 0, !.hitEvents = 0])
      u == [r EXCEPT !.menuCount = 0, !.gameOverCount = 0,
                     !.headerCount = r.headerCount + 1]
  IN createGameObjects(u)

\* showGameOver() that does not record the final time (mutant).
showGameOverNoFinalTime(s) ==
  LET d == DestroyAllGame([s EXCEPT !.gameState = "gameOver"])
  IN [d EXCEPT !.headerCount = 0, !.gameOverCount = d.gameOverCount + 1]

\* showGameOver()
showGameOver(s) ==
  LET d == DestroyAllGame([s EXCEPT !.gameState = "gameOver",
                                    !.finalTime = s.gameTime])
  IN [d EXCEPT !.headerCount = 0, !.gameOverCount = d.gameOverCount + 1]

\* A callback that returns to the menu instead (mutant).
onGameOverShowsMenu(s) == [showMenu(s) EXCEPT !.overCalls = s.overCalls + 1]

\* The callback updateGame hands to updateBalls.
onGameOver(s) == [showGameOver(s) EXCEPT !.overCalls = s.overCalls + 1]

\* The forEach body without the ball.exists() test (mutant).
updateBallNoExists(s, i, hh, gh) ==
  LET ball == s.balls[i]
      moved == [ball EXCEPT !.x = ball.x + ball.vx * ball.speed * s.frameDt,
                            !.y = ball.y + ball.vy * ball.speed * s.frameDt]
      top == hh * PX
      bottom == gh * PX
  IN IF moved.x < 0 \/ moved.x > screenW * PX
       THEN onGameOver([s EXCEPT !.balls[i] = moved])
     ELSE IF moved.y <= top \/ moved.y >= bottom
       THEN [s EXCEPT !.balls[i] =
               [moved EXCEPT !.vy = -moved.vy,
                             !.y = IF moved.y <= top THEN top + PX
                                   ELSE bottom - PX]]
     ELSE [s EXCEPT !.balls[i] = moved]

\* The forEach body with strict wall tests (mutant).
updateBallStrictWalls(s, i, hh, gh) ==
  LET ball == s.balls[i]
      moved == [ball EXCEPT !.x = ball.x + ball.vx * ball.speed * s.frameDt,
                            !.y = ball.y + ball.vy * ball.speed * s.frameDt]
      top == hh * PX
      bottom == gh * PX
  IN IF ~ball.exists THEN s
     ELSE IF moved.x < 0 \/ moved.x > screenW * PX
       THEN onGameOver([s EXCEPT !.balls[i] = moved])
     ELSE IF moved.y < top \/ moved.y > bottom
       THEN [s EXCEPT !.balls[i] =
               [moved EXCEPT !.vy = -moved.vy,
                             !.y = IF moved.y < top THEN top + PX
                                   ELSE bottom - PX]]
     ELSE [s EXCEPT !.balls[i] = moved]

\* The forEach body with a wall bounce that also slows the ball (mutant).
updateBallLossyBounce(s, i, hh, gh) ==
  LET ball == s.balls[i]
      moved == [ball EXCEPT !.x = ball.x + ball.vx * ball.speed * s.frameDt,
                            !.y = ball.y + ball.vy * ball.speed * s.frameDt]
      top == hh * PX
      bottom == gh * PX
  IN IF ~ball.exists THEN s
     ELSE IF moved.x < 0 \/ moved.x > screenW * PX
       THEN onGameOver([s EXCEPT !.balls[i] = moved])
     ELSE IF moved.y <= top \/ moved.y >= bottom
       THEN [s EXCEPT !.balls[i] =
               [moved EXCEPT !.vy = -moved.vy,
                             !.speed = moved.speed - SpeedIncrement,
                             !.y = IF moved.y <= top THEN top + PX
                                   ELSE bottom - PX]]
     ELSE [s EXCEPT !.balls[i] = moved]

\* The forEach body with an exit test that includes the screen edges (mutant).
updateBallInclusiveExit(s, i, hh, gh) ==
  LET ball == s.balls[i]
      moved == [ball EXCEPT !.x = ball.x + ball.vx * ball.speed * s.frameDt,
                            !.y = ball.y + ball.vy * ball.speed * s.frameDt]
      top == hh * PX
      bottom == gh * PX
  IN IF ~ball.exists THEN s
     ELSE IF moved.x <= 0 \/ moved.x >= screenW * PX
       THEN onGameOver([s EXCEPT !.balls[i] = moved])
     ELSE IF moved.y <= top \/ moved.y >= bottom
       THEN [s EXCEPT !.balls[i] =
               [moved EXCEPT !.vy = -moved.vy,
                             !.y = IF moved.y <= top THEN top + PX
                                   ELSE bottom - PX]]
     ELSE [s EXCEPT !.balls[i] = moved]

\* The forEach body with a bounce that puts the ball on the wall (mutant).
updateBallOntoWall(s, i, hh, gh) ==
  LET ball == s.balls[i]
      moved == [ball EXCEPT !.x = ball.x + ball.vx * ball.speed * s.frameDt,
                            !.y = ball.y + ball.vy * ball.speed * s.frameDt]
      top == hh * PX
      bottom == gh * PX
  IN IF ~ball.exists THEN s
     ELSE IF moved.x < 0 \/ moved.x > screenW * PX
       THEN onGameOver([s EXCEPT !.balls[i] = moved])
     ELSE IF moved.y <= top \/ moved.y >= bottom
       THEN [s EXCEPT !.balls[i] =
               [moved EXCEPT !.vy = -moved.vy,
                             !.y = IF moved.y <= top THEN top
                                   ELSE bottom]]
     ELSE [s EXCEPT !.balls[i] = moved]

\* The body of the forEach of updateBalls, for the ball at index i.
updateBall(s, i, hh, gh) ==
  LET ball == s.balls[i]
      moved == [ball EXCEPT !.x = ball.x + ball.vx * ball.speed * s.frameDt,
                            !.y = ball.y + ball.vy * ball.speed * s.frameDt]
      top == hh * PX
      bottom == gh * PX
  IN IF ~ball.exists THEN s
     ELSE IF moved.x < 0 \/ moved.x > screenW * PX
       THEN onGameOver([s EXCEPT !.balls[i] = moved])
     ELSE IF moved.y <= top \/ moved.y >= bottom
       THEN [s EXCEPT !.balls[i] =
               [moved EXCEPT !.vy = -moved.vy,
                             !.y = IF moved.y <= top THEN top + PX
                                   ELSE bottom - PX]]
     ELSE [s EXCEPT !.balls[i] = moved]

\* updateBalls(headerHeight, gameHeight, onGameOver): the balls of the copy
\* of this.balls, from index i on, in order.
RECURSIVE updateBallsFrom(_, _, _, _)
updateBallsFrom(s, i, hh, gh) ==
  IF i > Len(s.balls) THEN s
  ELSE updateBallsFrom(updateBall(s, i, hh, gh), i + 1, hh, gh)

updateBalls(s, hh, gh) == updateBallsFrom(s, 1, hh, gh)

\* The spawn test with a strict interval comparison (mutant).
spawnDueStrict(s) ==
  /\ s.gameMode = "agility"
  /\ s.gameTime - s.lastBallSpawnTime > SpawnInterval
  /\ Len(s.balls) < MaxBalls

\* The spawn test without the cap on the number of balls (mutant).
spawnDueNoCap(s) ==
  /\ s.gameMode = "agility"
  /\ s.gameTime - s.lastBallSpawnTime >= SpawnInterval

\* The spawn test without the mode test (mutant).
spawnDueAnyMode(s) ==
  /\ s.gameTime - s.lastBallSpawnTime >= SpawnInterval
  /\ Len(s.balls) < MaxBalls

\* The agility-mode spawn test of updateGame, after gameTime has advanced.
spawnDue(s) ==
  /\ s.gameMode = "agility"
  /\ s.gameTime - s.lastBallSpawnTime >= SpawnInterval
  /\ Len(s.balls) < MaxBalls

\* updateGame() that does not record the time of the spawn (mutant).
updateGameNoSpawnTime(s) ==
  IF s.gameState = "playing" /\ Len(s.balls) > 0
  THEN LET t == [s EXCEPT !.gameTime = s.gameTime + s.frameDt]
           u == IF spawnDue(t)
                THEN spawnNewBall(t, headerHeight, screenH)
                ELSE t
       IN updateBalls(u, headerHeight, screenH)
  ELSE s

\* updateGame() without the test of gameState (mutant).
updateGameAnyState(s) ==
  IF Len(s.balls) > 0
  THEN LET t == [s EXCEPT !.gameTime = s.gameTime + s.frameDt]
           u == IF spawnDue(t)
                THEN [spawnNewBall(t, headerHeight, screenH)
                        EXCEPT !.lastBallSpawnTime = t.gameTime]
                ELSE t
       IN updateBalls(u, headerHeight, screenH)
  ELSE s

\* updateGame()
updateGame(s) ==
  IF s.gameState = "playing" /\ Len(s.balls) > 0
  THEN LET t == [s EXCEPT !.gameTime = s.gameTime + s.frameDt]
           u == IF spawnDue(t)
                THEN [spawnNewBall(t, headerHeight, screenH)
                        EXCEPT !.lastBallSpawnTime = t.gameTime]
                ELSE t
       IN updateBalls(u, headerHeight, screenH)
  ELSE s

\* The onUpdate("paddle", p) handler, for the paddle at index j.
onUpdatePaddle(s, j, mouseY) ==
  IF s.gameState = "playing"
  THEN [s EXCEPT !.paddles[j].y =
          constrainPaddlePosition(mouseY, headerHeight, screenH,
                                  screenW, screenH)]
  ELSE s

\* handleBallPaddleCollision that raises the speed of every ball (mutant).
handleBallPaddleCollisionAllBalls(s, i, j) ==
  IF s.gameState = "playing"
  THEN LET ball == s.balls[i]
           paddle == s.paddles[j]
           paddleHeight == IF paddle.height # 0 THEN paddle.height
                           ELSE 140 * PX
           hitOffset == TDiv((ball.y - paddle.y) * VS, paddleHeight \div 2)
           clampedOffset == Max(-((8 * VS) \div 10),
                                Min((8 * VS) \div 10, hitOffset))
           newVelX == IF ball.x < (screenW * PX) \div 2 THEN VS ELSE -VS
           newVelocity == Unit(<<newVelX, clampedOffset>>)
           hit == [s EXCEPT !.score = s.score + 1,
                            !.hitEvents = s.hitEvents + 1,
                            !.balls[i] = [ball EXCEPT !.vx = newVelocity[1],
                                                      !.vy = newVelocity[2],
                                                      !.hits = ball.hits + 1]]
       IN [hit EXCEPT !.balls = [k \in 1..Len(hit.balls) |->
             [hit.balls[k] EXCEPT !.speed = hit.balls[k].speed + SpeedIncrement]]]
  ELSE s

\* handleBallPaddleCollision without the clamp of the hit offset (mutant).
handleBallPaddleCollisionNoClamp(s, i, j) ==
  IF s.gameState = "playing"
  THEN LET ball == s.balls[i]
           paddle == s.paddles[j]
           paddleHeight == IF paddle.height # 0 THEN paddle.height
                           ELSE 140 * PX
           hitOffset == TDiv((ball.y - paddle.y) * VS, paddleHeight \div 2)
           newVelX == IF ball.x < (screenW * PX) \div 2 THEN VS ELSE -VS
           newVelocity == Unit(<<newVelX, hitOffset>>)
       IN [s EXCEPT !.score = s.score + 1,
                    !.hitEvents = s.hitEvents + 1,
                    !.balls[i] = [ball EXCEPT !.vx = newVelocity[1],
                                              !.vy = newVelocity[2],
                                              !.speed = ball.speed + SpeedIncrement,
                                              !.hits = ball.hits + 1]]
  ELSE s

\* handleBallPaddleCollision that counts the hit twice (mutant).
handleBallPaddleCollisionDoubleScore(s, i, j) ==
  IF s.gameState = "playing"
  THEN LET ball == s.balls[i]
           paddle == s.paddles[j]
           paddleHeight == IF paddle.height # 0 THEN paddle.height
                           ELSE 140 * PX
           hitOffset == TDiv((ball.y - paddle.y) * VS, paddleHeight \div 2)
           clampedOffset == Max(-((8 * VS) \div 10),
                                Min((8 * VS) \div 10, hitOffset))
           newVelX == IF ball.x < (screenW * PX) \div 2 THEN VS ELSE -VS
           newVelocity == Unit(<<newVelX, clampedOffset>>)
       IN [s EXCEPT !.score = s.score + 2,
                    !.hitEvents = s.hitEvents + 1,
                    !.balls[i] = [ball EXCEPT !.vx = newVelocity[1],
                                              !.vy = newVelocity[2],
                                              !.speed = ball.speed + SpeedIncrement,
                                              !.hits = ball.hits + 1]]
  ELSE s

\* handleBallPaddleCollision(ball, paddle), ball at index i, paddle at j.
handleBallPaddleCollision(s, i, j) ==
  IF s.gameState = "playing"
  THEN LET ball == s.balls[i]
           paddle == s.paddles[j]
           paddleHeight == IF paddle.height # 0 THEN paddle.height
                           ELSE 140 * PX
           hitOffset == TDiv((ball.y - paddle.y) * VS, paddleHeight \div 2)
           clampedOffset == Max(-((8 * VS) \div 10),
                                Min((8 * VS) \div 10, hitOffset))
           newVelX == IF ball.x < (screenW * PX) \div 2 THEN VS ELSE -VS
           newVelocity == Unit(<<newVelX, clampedOffset>>)
       IN [s EXCEPT !.score = s.score + 1,
                    !.hitEvents = s.hitEvents + 1,
                    !.balls[i] = [ball EXCEPT !.vx = newVelocity[1],
                                              !.vy = newVelocity[2],
                                              !.speed = ball.speed + SpeedIncrement,
                                              !.hits = ball.hits + 1]]
  ELSE s

\* ------------------------------------------------------ engine: collisions
\* The engine's overlap test of the ball's area (a square of side 2 * radius
\* about its position) and the paddle's area (its rectangle, centred).
Overlap(ball, paddle) ==
  /\ ball.exists /\ paddle.exists
  /\ 2 * (ball.x - paddle.x) < 2 * ball.radius * PX + paddle.width
  /\ 2 * (paddle.x - ball.x) < 2 * ball.radius * PX + paddle.width
  /\ 2 * (ball.y - paddle.y) < 2 * ball.radius * PX + paddle.height
  /\ 2 * (paddle.y - ball.y) < 2 * ball.radius * PX + paddle.height

\* A collision ends when its pair no longer overlaps.
endCollisions(s) ==
  [s EXCEPT !.touching =
     {c \in s.touching : /\ c[1] <= Len(s.balls) /\ c[2] <= Len(s.paddles)
                         /\ Overlap(s.balls[c[1]], s.paddles[c[2]])}]

\* ------------------------------------------------------------- the system
Init ==
  /\ \E v \in Viewports : screenW = v[1] /\ screenH = v[2]
  /\ util = loaded(screenW, screenH)
  /\ rng \in 0..(RngM - 1)
  /\ frameDt = 0
  /\ gameState = "menu"
  /\ gameMode = "speed"
  /\ gameTime = 0
  /\ finalTime = 0
  /\ score = 0
  /\ lastBallSpawnTime = 0
  /\ balls = <<>>
  /\ paddles = <<>>
  /\ strayBalls = 0
  /\ strayPaddles = 0
  /\ scoreDisplays = 0
  /\ menuCount = 1
  /\ gameOverCount = 0
  /\ headerCount = 0
  /\ touching = {}
  /\ overCalls = 0
  /\ hitEvents = 0

\* onClick("startButton")
ClickStart ==
  /\ menuCount > 0
  /\ Becomes(startGame(Cur))

\* A mode button that rebuilds the menu whatever the current mode (mutant).
selectModeRebuilds(s, mode) == showMenu([s EXCEPT !.gameMode = mode])

\* onClick("speedModeButton") / onClick("agilityModeButton")
selectMode(s, mode) ==
  IF s.gameMode # mode THEN showMenu([s EXCEPT !.gameMode = mode]) ELSE s

ClickMode(mode) ==
  /\ menuCount > 0
  /\ (gameMode # mode => menuCount < MaxMenus)
  /\ Becomes(selectMode(Cur, mode))

\* onClick("playAgainButton")
ClickPlayAgain ==
  /\ gameOverCount > 0
  /\ Becomes(startGame(Cur))

\* A menu button that also resets the session's fields (mutant).
mainMenuResets(s) ==
  showMenu([s EXCEPT !.gameOverCount = 0, !.score = 0, !.gameTime = 0,
                     !.finalTime = 0, !.lastBallSpawnTime = 0, !.balls = <<>>])

\* onClick("menuButton")
mainMenu(s) == showMenu([s EXCEPT !.gameOverCount = 0])

ClickMainMenu ==
  /\ gameOverCount > 0
  /\ Becomes(mainMenu(Cur))

\* A frame's global onUpdate: updateGame() with dt() = d.  Sessions are
\* explored up to MaxTime seconds, with frames shorter than the spawn
\* interval in their first FineUntil seconds and frames longer than it in
\* their first LongUntil seconds.
Tick(d) ==
  /\ gameState = "playing" => gameTime < MaxTime
  /\ (gameState = "playing" /\ d < SpawnInterval) => gameTime < FineUntil
  /\ (gameState = "playing" /\ d > SpawnInterval) => gameTime < LongUntil
  /\ Becomes(endCollisions(updateGame([Cur EXCEPT !.frameDt = d])))

\* A frame's onUpdate("paddle") pass: the handler runs for each live paddle
\* with the frame's pointer position.
RECURSIVE updatePaddlesFrom(_, _, _)
updatePaddlesFrom(s, j, mouseY) ==
  IF j > Len(s.paddles) THEN s
  ELSE updatePaddlesFrom(
         IF s.paddles[j].exists THEN onUpdatePaddle(s, j, mouseY) ELSE s,
         j + 1, mouseY)

PaddleFrame(mouseY) ==
  /\ \E j \in 1..Len(paddles) : paddles[j].exists
  /\ Becomes(endCollisions(updatePaddlesFrom(Cur, 1, mouseY)))

\* onCollide("ball", "paddle"): the engine reports a collision that starts.
Collide(i, j) ==
  /\ Overlap(balls[i], paddles[j])
  /\ <<i, j>> \notin touching
  /\ score < MaxScore
  /\ Becomes(handleBallPaddleCollision(
               [Cur EXCEPT !.touching = touching \cup {<<i, j>>}], i, j))

Next ==
  \/ ClickStart
  \/ \E mode \in {"speed", "agility"} : ClickMode(mode)
  \/ ClickPlayAgain
  \/ ClickMainMenu
  \/ \E d \in DtSet : Tick(d)
  \/ \E m \in MouseYs : PaddleFrame(m)
  \/ \E i \in 1..Len(balls), j \in 1..Len(paddles) : Collide(i, j)

Spec == Init /\ [][Next]_vars

\* ------------------------------------------------- GameUtils on its own
\* The layout and clamp functions exercised apart from a session: the page
\* is loaded in windows of various sizes (the game stays in its menu), and
\* the clamp is applied to pointer positions and to its own results.
UtilInit ==
  /\ \E w \in WidthSet, h \in HeightSet :
       screenW = w /\ screenH = h /\ util = loaded(w, h)
  /\ rng = 0
  /\ frameDt = 0
  /\ gameState = "menu"
  /\ gameMode = "speed"
  /\ gameTime = 0
  /\ finalTime = 0
  /\ score = 0
  /\ lastBallSpawnTime = 0
  /\ balls = <<>>
  /\ paddles = <<>>
  /\ strayBalls = 0
  /\ strayPaddles = 0
  /\ scoreDisplays = 0
  /\ menuCount = 1
  /\ gameOverCount = 0
  /\ headerCount = 0
  /\ touching = {}
  /\ overCalls = 0
  /\ hitEvents = 0

\* kaboom({width, height}) and getResponsiveDimensions() in a window of
\* w x h pixels; the layout of the window before is remembered.
Load(w, h) ==
  /\ screenW' = w
  /\ screenH' = h
  /\ util' = [loaded(w, h) EXCEPT !.prev = util.cur]
  /\ UNCHANGED gameVars

\* constrainPaddlePosition(m, hh, height())
Clamp(m, hh) ==
  /\ util' = [loaded(screenW, screenH) EXCEPT
                !.op = "clamp", !.hh = hh, !.mouseY = m,
                !.y = constrainPaddlePosition(m, hh, screenH, screenW, screenH)]
  /\ UNCHANGED <<screenW, screenH>>
  /\ UNCHANGED gameVars

\* constrainPaddlePosition applied to the result of the call before.
Reclamp ==
  /\ util.op = "clamp"
  /\ util' = [util EXCEPT
                !.op = "reclamp", !.mouseY = util.y,
                !.y = constrainPaddlePosition(util.y, util.hh, screenH,
                                              screenW, screenH)]
  /\ UNCHANGED <<screenW, screenH>>
  /\ UNCHANGED gameVars

UtilNext ==
  \/ \E w \in WidthSet, h \in HeightSet : Load(w, h)
  \/ \E m \in PointerYs, hh \in HeaderHeights : Clamp(m, hh)
  \/ Reclamp

UtilSpec == UtilInit /\ [][UtilNext]_vars


\* ------------------------------------------------------------- vocabulary
LiveBalls(bs) == {i \in 1..Len(bs) : bs[i].exists}
LivePaddles(ps) == {j \in 1..Len(ps) : ps[j].exists}

\* Number of live "ball" / "paddle" objects in the scene.
liveBallEntities == Cardinality(LiveBalls(balls)) + strayBalls
livePaddleEntities == Cardinality(LivePaddles(paddles)) + strayPaddles

\* Ball b advanced by one frame of d seconds.
Advanced(b, d) ==
  [b EXCEPT !.x = b.x + b.vx * b.speed * d, !.y = b.y + b.vy * b.speed * d]

OutsideX(b) == b.x < 0 \/ b.x > screenW * PX

\* A step that is a frame tick of a playing session.
PlayingTick == gameState = "playing" /\ gameTime' # gameTime

\* A step that starts a session (startGame from menu or from gameOver).
SessionStart == gameState # "playing" /\ gameState' = "playing"

\* ------------------------------------------------------------------ C1
\* C1: the game starts in menu, and the only changes of gameState are
\* menu -> playing (startGame), playing -> gameOver (a ball left the screen
\* horizontally in a frame tick), gameOver -> playing (playAgain) and
\* gameOver -> menu (mainMenu); selectMode keeps menu.
C1_Step ==
  \/ gameState' = gameState
  \/ /\ gameState = "menu" /\ gameState' = "playing"
     /\ menuCount > 0 /\ menuCount' = 0
  \/ /\ gameState = "playing" /\ gameState' = "gameOver"
     /\ gameTime' = gameTime + frameDt'
     /\ \E i \in 1..Len(balls') : OutsideX(balls'[i])
  \/ /\ gameState = "gameOver" /\ gameState' = "playing"
     /\ gameOverCount > 0 /\ gameOverCount' = 0
  \/ /\ gameState = "gameOver" /\ gameState' = "menu"
     /\ gameOverCount > 0 /\ gameOverCount' = 0 /\ menuCount' > 0

C1_StateMachine == gameState = "menu" /\ [][C1_Step]_vars

\* Every arrow of the machine has been taken: a second session was ended,
\* after a visit of the menu from gameOver.
C1_Witness ==
  /\ gameState = "gameOver"
  /\ gameMode = "agility"
  /\ menuCount = 0
  /\ finalTime > 0
  /\ Len(balls) >= 2

\* ------------------------------------------------------------------ C2
\* C2: startGame (from menu) and playAgain (from gameOver) yield
\* gameState = playing, score = 0, gameTime = 0, lastBallSpawnTime = 0,
\* exactly 2 live paddles, exactly 1 live ball, and a ball collection of
\* exactly one ball of speed 600.
C2_Fresh ==
  /\ gameState = "playing"
  /\ score = 0
  /\ gameTime = 0
  /\ lastBallSpawnTime = 0
  /\ livePaddleEntities = 2
  /\ liveBallEntities = 1
  /\ Len(balls) = 1
  /\ balls[1].exists
  /\ balls[1].speed = 600

C2_StartGame == [][(ClickStart \/ ClickPlayAgain) => C2_Fresh']_vars

\* A session restarted by playAgain after an agility session that had
\* several balls, a hit and elapsed time.
C2_Witness ==
  /\ C2_Fresh
  /\ gameMode = "agility"
  /\ finalTime >= 10
  /\ rng # 0

\* ------------------------------------------------------------------ C3
\* C3: onGameOver is called exactly once per session: never more than once,
\* not at all while the session is playing with every ball inside the
\* screen, once when the state is gameOver, and not again outside playing.
C3_Counts ==
  /\ overCalls <= 1
  /\ gameState = "gameOver" => overCalls = 1
  /\ gameState = "playing" =>
       /\ overCalls = 0
       /\ \A i \in 1..Len(balls) : ~OutsideX(balls[i])

C3_GameOverOnce ==
  /\ []C3_Counts
  /\ [][/\ PlayingTick =>
             overCalls' = IF \E i \in 1..Len(balls') : OutsideX(balls'[i])
                          THEN overCalls + 1 ELSE overCalls
        /\ (gameState # "playing" /\ gameState' # "playing")
             => overCalls' = overCalls]_vars

\* Game over in a tick in which a second ball, too, would be outside the
\* screen once advanced.
C3_Witness ==
  /\ gameState = "gameOver"
  /\ overCalls = 1
  /\ \E i, j \in 1..Len(balls) :
       /\ i < j
       /\ OutsideX(balls[i])
       /\ OutsideX(Advanced(balls[j], frameDt))

\* ------------------------------------------------------------------ C4
\* C4: in gameOver finalTime = gameTime, and no step that stays in gameOver
\* changes finalTime or gameTime.
C4_FinalTime ==
  /\ [](gameState = "gameOver" => finalTime = gameTime)
  /\ [][(gameState = "gameOver" /\ gameState' = "gameOver")
          => (finalTime' = finalTime /\ gameTime' = gameTime)]_vars

\* Game over at 20 s by the initial ball, never hit: it would have been
\* outside at 15 s already, so the tick that ended the session had dt of
\* 10 or 20; dt() is now 5, so a frame has passed in gameOver since.
C4_Witness ==
  /\ gameState = "gameOver"
  /\ finalTime = 20
  /\ gameTime = 20
  /\ frameDt = 5
  /\ balls[1].hits = 0
  /\ OutsideX(balls[1])

\* ------------------------------------------------------------------ C5
\* Whether the elapsed time crosses a multiple of 10 seconds from a to b.
Crosses(a, b) == (b \div 10) > (a \div 10)

\* C5 (as claimed): in agility mode with fewer than 10 balls a playing tick
\* spawns exactly one ball if the elapsed time crosses a multiple of 10
\* seconds in it, and no ball otherwise.
C5_CrossingRule ==
  [][(PlayingTick /\ gameMode = "agility" /\ Len(balls) < 10) =>
       Len(balls') = Len(balls) + (IF Crosses(gameTime, gameTime') THEN 1 ELSE 0)]_vars

\* C5 (amended): in agility mode with fewer than 10 balls a playing tick
\* spawns exactly one ball (of speed 600) if the advanced elapsed time is at
\* least 10 seconds past the last spawn time, which then becomes the
\* elapsed time, and no ball otherwise.
C5_SpawnRule ==
  [][(PlayingTick /\ gameMode = "agility" /\ Len(balls) < 10) =>
       IF gameTime' - lastBallSpawnTime >= 10
       THEN /\ Len(balls') = Len(balls) + 1
            /\ balls'[Len(balls')].speed = 600
            /\ lastBallSpawnTime' = gameTime'
       ELSE /\ Len(balls') = Len(balls)
            /\ lastBallSpawnTime' = lastBallSpawnTime]_vars

\* After a spawn at 15 s, the tick that reached 20 s spawned nothing.
C5_Witness ==
  /\ gameState = "playing"
  /\ gameMode = "agility"
  /\ lastBallSpawnTime = 15
  /\ gameTime = 20
  /\ Len(balls) = 2

\* ------------------------------------------------------------------ C6
\* C6: the active-ball collection never holds more than 10 balls.
C6_AtMostTenBalls == Len(balls) <= 10

\* Ten balls in play and a spawn interval elapsed: the cap is what stops
\* the spawn.
C6_Witness ==
  /\ gameState = "playing"
  /\ gameMode = "agility"
  /\ Len(balls) = 10
  /\ gameTime - lastBallSpawnTime >= 10

\* ------------------------------------------------------------------ C7
\* C7: while playing in speed mode the collection holds exactly the one
\* initial ball and lastBallSpawnTime is 0.
C7_SpeedModeOneBall ==
  (gameState = "playing" /\ gameMode = "speed") =>
    /\ Len(balls) = 1
    /\ balls[1].exists
    /\ lastBallSpawnTime = 0

\* A speed-mode session that has lasted several spawn intervals.
C7_Witness ==
  /\ gameState = "playing"
  /\ gameMode = "speed"
  /\ gameTime >= 30

\* ------------------------------------------------------------------ C8
\* C8 (as claimed): while playing, after N handled paddle hits score = N and
\* the speed of a ball is 600 + 80 * N, in either mode.
C8_AnyMode ==
  gameState = "playing" =>
    /\ score = hitEvents
    /\ \A i \in 1..Len(balls) : balls[i].speed = 600 + 80 * hitEvents

\* C8 (amended): while playing, after N handled paddle hits score = N; each
\* ball's speed is 600 + 80 * (the hits on that ball), which is 600 + 80 * N
\* while the collection holds one ball (always so in speed mode).
C8_ScoreAndSpeed ==
  gameState = "playing" =>
    /\ score = hitEvents
    /\ \A i \in 1..Len(balls) : balls[i].speed = 600 + 80 * balls[i].hits
    /\ (Len(balls) = 1 \/ gameMode = "speed") =>
         (Len(balls) = 1 /\ balls[1].speed = 600 + 80 * hitEvents)

\* Two hits handled, with a second ball in play.
C8_Witness ==
  /\ gameState = "playing"
  /\ hitEvents = 2
  /\ Len(balls) = 2
  /\ balls[1].speed = 760
  /\ balls[2].speed = 600

\* ------------------------------------------------------------------ C9
\* The wall step of a playing tick for the ball at index i, processed while
\* live (no ball before it, nor itself, left the screen horizontally):
\* reflected (vy negated, vx kept, y put 1 pixel inside the wall) when
\* `hit` holds of its advanced position, else only advanced.
WallStep(i, hit(_)) ==
  LET a == Advanced(balls[i], frameDt')
      n == balls'[i]
      top == 60 * PX
      bottom == screenH * PX
  IN (\A j \in 1..i : ~OutsideX(Advanced(balls[j], frameDt'))) =>
       /\ n.x = a.x
       /\ n.vx = a.vx
       /\ IF hit(a)
          THEN /\ n.vy = -a.vy
               /\ n.y = IF a.y <= top THEN top + PX ELSE bottom - PX
          ELSE /\ n.vy = a.vy
               /\ n.y = a.y

BeyondWall(a) == a.y < 60 * PX \/ a.y > screenH * PX
AtOrBeyondWall(a) == a.y <= 60 * PX \/ a.y >= screenH * PX

\* C9 (as claimed): the ball is reflected iff its advanced y is outside
\* [headerHeight, gameAreaBottom].
C9_ReflectOutside ==
  [][PlayingTick => \A i \in 1..Len(balls) : WallStep(i, BeyondWall)]_vars

\* C9 (amended): the ball is reflected iff its advanced y is at or beyond
\* a wall (y <= headerHeight or y >= gameAreaBottom).
C9_ReflectAtOrBeyond ==
  [][PlayingTick => \A i \in 1..Len(balls) : WallStep(i, AtOrBeyondWall)]_vars

\* After the first tick (5 s) the initial ball has been reflected having
\* landed exactly on the top wall, and is 1 pixel inside it.
C9_Witness ==
  /\ gameState = "playing"
  /\ gameTime = 5
  /\ balls[1].y = 61 * PX
  /\ balls[1].vy > 0
  /\ (60 * PX + ((screenH - 60) * PX) \div 2) - balls[1].vy * 600 * 5 = 60 * PX

\* ------------------------------------------------------------------ C10
\* C10: a ball's speed changes only in a handled paddle hit, by +80 for the
\* ball hit and for no other; every other step within a session keeps each
\* ball's speed and vx, and keeps vy or (a tick's wall bounce) negates it.
C10_Step ==
  ~SessionStart =>
    /\ Len(balls') >= Len(balls)
    /\ hitEvents' = hitEvents =>
         \A i \in 1..Len(balls) :
           /\ balls'[i].speed = balls[i].speed
           /\ balls'[i].vx = balls[i].vx
           /\ balls'[i].vy \in {balls[i].vy, -balls[i].vy}
           /\ gameTime' = gameTime => balls'[i].vy = balls[i].vy
    /\ hitEvents' # hitEvents =>
         \E i \in 1..Len(balls) :
           /\ balls'[i].speed = balls[i].speed + 80
           /\ \A k \in 1..Len(balls) : k # i => balls'[k] = balls[k]

C10_SpeedOnlyOnHit == [][C10_Step]_vars

\* A ball hit once (speed 680) has since bounced off the top wall, with a
\* second ball in play.
C10_Witness ==
  /\ gameState = "playing"
  /\ Len(balls) >= 2
  /\ balls[1].speed = 680
  /\ balls[1].hits = 1
  /\ balls[1].y = 61 * PX
  /\ balls[1].vy > 0

\* ------------------------------------------------------------------ C11
\* C11: a playing tick ends in gameOver if and only if some ball, once
\* advanced, has x < 0 or x > screenWidth (a ball at exactly 0 or exactly
\* screenWidth does not end the game); the first such ball keeps its
\* advanced position and its velocity: the wall reflection is skipped for
\* it, even when its advanced y is beyond a wall.
C11_Step ==
  PlayingTick =>
    /\ (gameState' = "gameOver") <=> (\E i \in 1..Len(balls') : OutsideX(balls'[i]))
    /\ gameState' \in {"playing", "gameOver"}
    /\ \A i \in 1..Len(balls) :
         LET a == Advanced(balls[i], frameDt')
         IN /\ OutsideX(a) => gameState' = "gameOver"
            /\ (OutsideX(a) /\ \A j \in 1..(i - 1) :
                                 ~OutsideX(Advanced(balls[j], frameDt')))
                 => balls'[i] = [a EXCEPT !.exists = FALSE]
            /\ (gameState' = "playing" /\ a.x \in {0, screenW * PX})
                 => balls'[i].x = a.x /\ balls'[i].exists

C11_GameOverIffOutside == [][C11_Step]_vars

\* Game over by a ball that left the screen to the side while its advanced y
\* was beyond the bottom wall: it was not reflected nor put back inside.
C11_Witness ==
  /\ gameState = "gameOver"
  /\ \E i \in 1..Len(balls) :
       /\ OutsideX(balls[i])
       /\ balls[i].y > screenH * PX
       /\ balls[i].vy > 0

\* ------------------------------------------------------------------ C12
\* The range [hh + h/2, screenHeight - h/2] of the last clamp call, h being
\* the paddle height of the canvas's breakpoint.
ClampApplied == util.op \in {"clamp", "reclamp"}
ClampLow == util.hh * PX + (util.cur.clampHeight * PX) \div 2
ClampHigh == screenH * PX - (util.cur.clampHeight * PX) \div 2

\* C12 (as claimed): with headerHeight = 60 the clamp's result is within
\* [headerHeight + h/2, screenHeight - h/2] for every pointer y and every
\* canvas, also those where the lower bound exceeds the upper bound.
C12_AlwaysInRange ==
  (ClampApplied /\ util.hh = 60) => (ClampLow <= util.y /\ util.y <= ClampHigh)

\* C12 (amended): with headerHeight = 60 the clamp's result is within
\* [headerHeight + h/2, screenHeight - h/2] whenever that range is not
\* empty; when the lower bound exceeds the upper bound the result is the
\* lower bound headerHeight + h/2, whatever the pointer y.
C12_InRangeOrLowerBound ==
  (ClampApplied /\ util.hh = 60) =>
    IF ClampLow <= ClampHigh
    THEN /\ ClampLow <= util.y /\ util.y <= ClampHigh
         /\ (ClampLow <= util.mouseY /\ util.mouseY <= ClampHigh)
              => util.y = util.mouseY
    ELSE util.y = ClampLow

\* The clamp applied to a pointer far below a canvas 159 pixels high:
\* the range [110, 109] is empty and the result is 110.
C12_Witness ==
  /\ util.op = "clamp"
  /\ util.hh = 60
  /\ screenH = 159
  /\ util.mouseY = 2000 * PX
  /\ util.y = 110 * PX
  /\ ClampHigh = 109 * PX

\* ------------------------------------------------------------------ C13
\* C13: the clamp is idempotent: applied to its own result, with the same
\* header height on the same canvas, it returns that result; also when the
\* lower bound exceeds the upper bound.
C13_Idempotent == util.op = "reclamp" => util.y = util.mouseY

\* The clamp applied to its own result where the lower bound exceeds the
\* upper bound.
C13_Witness ==
  /\ util.op = "reclamp"
  /\ ClampLow > ClampHigh
  /\ util.hh = 700
  /\ util.y = ClampLow

\* ------------------------------------------------------------------ C14
\* C14: in the menu, selecting the current mode changes nothing at all;
\* selecting the other mode sets the mode, keeps the state menu and keeps
\* score, elapsed time, final time and last-spawn time.
C14_Step ==
  \A mode \in {"speed", "agility"} :
    ClickMode(mode) =>
      /\ gameState = "menu"
      /\ IF gameMode = mode
         THEN UNCHANGED vars
         ELSE /\ gameMode' = mode
              /\ gameState' = "menu"
              /\ UNCHANGED <<score, gameTime, finalTime, lastBallSpawnTime>>

C14_SelectMode == [][C14_Step]_vars

\* The mode was switched to agility in the menu reached from a session
\* that had a hit and elapsed time.
C14_Witness ==
  /\ gameState = "menu"
  /\ gameMode = "agility"
  /\ menuCount = 2
  /\ finalTime > 0
  /\ score > 0

C16_Step ==
  (/\ gameState # "playing"
   /\ \/ \E d \in DtSet : Tick(d)
      \/ \E m \in MouseYs : PaddleFrame(m)
      \/ \E i \in 1..Len(balls), j \in 1..Len(paddles) : Collide(i, j))
    => UNCHANGED <<gameState, gameTime, score, finalTime, lastBallSpawnTime,
                   balls, paddles>>

C16_IdleOutsidePlaying == [][C16_Step]_vars

\* The menu after a session ended at 20 s by a tick of 10 or 20 s (the ball,
\* never hit and flying level, would have been outside at 15 s): dt() is
\* now 5, so a frame has passed in gameOver or menu since, and the fields
\* are as at game over.
C16_Witness ==
  /\ gameState = "menu"
  /\ frameDt = 5
  /\ gameTime = 20
  /\ finalTime = 20
  /\ balls[1].hits = 0
  /\ balls[1].vy = 0
  /\ OutsideX(balls[1])

\* ------------------------------------------------------------------ C17
\* C17: while playing exactly two live paddles exist; in menu and in
\* gameOver no live paddle and no live ball exists.
C17_PlayEntities ==
  /\ gameState = "playing" => livePaddleEntities = 2
  /\ gameState # "playing" => (livePaddleEntities = 0 /\ liveBallEntities = 0)

\* A second session, with paddles moved by the pointer and several balls.
C17_Witness ==
  /\ gameState = "playing"
  /\ finalTime > 0
  /\ gameTime >= 10
  /\ Len(balls) >= 2
  /\ livePaddleEntities = 2
  /\ paddles[1].y = 1249 * PX

\* ------------------------------------------------------------------ C18
Abs(x) == IF x < 0 THEN -x ELSE x

\* Velocity components are whole multiples of 1/VS, so a relation between
\* the components of a normalised vector holds up to one such unit.
\* C18: in a handled paddle hit the ball's new vx is positive if the ball is
\* left of the screen centre and negative otherwise, which is away from the
\* paddle hit; the new velocity is the normalisation of (+-1, c), c being
\* (ball.y - paddle.y) / (paddleHeight / 2) clamped to [-0.8, 0.8]; and
\* |vy| <= 0.8 * |vx| for every ball that has been hit.
C18_Step ==
  hitEvents' = hitEvents + 1 =>
    \E i \in 1..Len(balls), j \in 1..Len(paddles) :
      /\ <<i, j>> \notin touching
      /\ touching' = touching \cup {<<i, j>>}
      /\ LET b == balls[i]
             p == paddles[j]
             n == balls'[i]
             centre == (screenW * PX) \div 2
             offset == TDiv((b.y - p.y) * VS, p.height \div 2)
             c == Max(-((8 * VS) \div 10), Min((8 * VS) \div 10, offset))
         IN /\ gameState = "playing"
            /\ n.x = b.x /\ n.y = b.y
            /\ b.x < centre => n.vx > 0
            /\ b.x >= centre => n.vx < 0
            /\ p.x < centre => n.vx > 0
            /\ p.x > centre => n.vx < 0
            /\ Abs(n.vy * VS - Abs(n.vx) * c) <= VS
            /\ n.vy * c >= 0

C18_HitVelocity ==
  /\ [][C18_Step]_vars
  /\ [](\A i \in 1..Len(balls) :
          balls[i].hits >= 1 => 10 * Abs(balls[i].vy) <= 8 * Abs(balls[i].vx) + 10)

\* The ball has just been hit by the left paddle 0.9 of the paddle's half
\* height above its centre: the offset was clamped to -0.8 and the velocity
\* is the normalisation of (1, -0.8).
C18_Witness ==
  /\ gameState = "playing"
  /\ balls[1].hits = 1
  /\ balls[1].x = paddles[1].x
  /\ 10 * (balls[1].y - paddles[1].y) = -9 * (paddles[1].height \div 2)
  /\ balls[1].vx = 781
  /\ balls[1].vy = -625

\* ------------------------------------------------------------------ C19
\* The order mobile < tablet < laptop < desktop.
Rank(bp) ==
  CASE bp = "mobile" -> 1 [] bp = "tablet" -> 2
    [] bp = "laptop" -> 3 [] bp = "desktop" -> 4

\* C19: the layout of every canvas has one breakpoint among mobile, tablet,
\* laptop and desktop, and of two canvases the one that is neither wider
\* nor higher never has the larger breakpoint.
C19_Monotone ==
  /\ util.cur.breakpoint \in {"mobile", "tablet", "laptop", "desktop"}
  /\ (util.cur.w <= util.prev.w /\ util.cur.h <= util.prev.h)
       => Rank(util.cur.breakpoint) <= Rank(util.prev.breakpoint)
  /\ (util.cur.w >= util.prev.w /\ util.cur.h >= util.prev.h)
       => Rank(util.cur.breakpoint) >= Rank(util.prev.breakpoint)

\* A window of 1367 x 768 (tablet, by its height) loaded after one of
\* 1367 x 901 (desktop): lower, not wider, and a smaller breakpoint.
C19_Witness ==
  /\ util.op = "load"
  /\ util.prev.w = 1367 /\ util.prev.h = 901
  /\ util.prev.breakpoint = "desktop"
  /\ screenW = 1367 /\ screenH = 768
  /\ util.cur.breakpoint = "tablet"

\* ------------------------------------------------------------------ C20
\* C20: the breakpoint is mobile iff width <= 768 or height <= 600, else
\* tablet iff width <= 1024 or height <= 768, else laptop iff width <= 1366
\* or height <= 900, else desktop; paddle height, ball radius and modal
\* width are 100/10/300, 120/12/400, 140/14/450, 160/16/500 for these; the
\* clamp uses the height of the paddles created.
C20_Layout ==
  LET l == util.cur
      w == screenW
      h == screenH
  IN /\ l.w = w /\ l.h = h
     /\ (l.breakpoint = "mobile") <=> (w <= 768 \/ h <= 600)
     /\ (l.breakpoint = "tablet") <=>
          (~(w <= 768 \/ h <= 600) /\ (w <= 1024 \/ h <= 768))
     /\ (l.breakpoint = "laptop") <=>
          (~(w <= 1024 \/ h <= 768) /\ (w <= 1366 \/ h <= 900))
     /\ (l.breakpoint = "desktop") <=> (w > 1366 /\ h > 900)
     /\ <<l.paddleHeight, l.ballRadius, l.modalWidth>> =
          CASE l.breakpoint = "mobile" -> <<100, 10, 300>>
            [] l.breakpoint = "tablet" -> <<120, 12, 400>>
            [] l.breakpoint = "laptop" -> <<140, 14, 450>>
            [] l.breakpoint = "desktop" -> <<160, 16, 500>>
     /\ l.clampHeight = l.paddleHeight
     /\ (ClampApplied /\ ClampLow <= ClampHigh) =>
          /\ util.y >= (util.hh * PX) + (l.paddleHeight * PX) \div 2
          /\ util.y <= (screenH * PX) - (l.paddleHeight * PX) \div 2
          /\ util.mouseY <= 0 =>
               util.y = (util.hh * PX) + (l.paddleHeight * PX) \div 2

\* A window of 1920 x 1080: desktop, paddle height 160, ball radius 16,
\* modal width 500; the clamp has put a pointer at 0 to 60 + 80.
C20_Witness ==
  /\ screenW = 1920 /\ screenH = 1080
  /\ util.cur.breakpoint = "desktop"
  /\ util.cur.paddleHeight = 160
  /\ util.cur.ballRadius = 16
  /\ util.cur.modalWidth = 500
  /\ util.op = "clamp"
  /\ util.hh = 60
  /\ util.mouseY = 0
  /\ util.y = 140 * PX

\* ------------------------------------------------------------------ C21
\* The velocity of ball b has norm 1, up to the rounding of its components
\* to whole multiples of 1/VS.
UnitVelocity(b) ==
  LET n2 == b.vx * b.vx + b.vy * b.vy
  IN (VS - 2) * (VS - 2) <= n2 /\ n2 <= (VS + 2) * (VS + 2)

\* C21: the velocity of every ball of the collection is a unit vector, after
\* the creation of the initial ball, after an agility spawn, after a paddle
\* hit and after any number of frame ticks and wall reflections.
C21_UnitVelocity == \A i \in 1..Len(balls) : UnitVelocity(balls[i])

\* An agility session with the initial ball hit by a paddle and reflected
\* off the top wall since, and a spawned ball flying at a slant.
C21_Witness ==
  /\ gameState = "playing"
  /\ gameTime >= 15
  /\ Len(balls) = 2
  /\ balls[1].hits = 1
  /\ balls[1].y = 61 * PX
  /\ balls[2].hits = 0
  /\ balls[2].vy # 0

\* ------------------------------------------------------------------ C22
\* C22: in every state every ball held in BallManager.balls is a live
\* entity and BallManager.count is the number of live ball entities.
C22_OwnsLiveBalls ==
  /\ \A i \in 1..Len(balls) : balls[i].exists
  /\ Len(balls) = liveBallEntities

\* ------------------------------------------------------------------ C23
\* The sum over the balls of bs of speed - 600.
RECURSIVE SpeedGain(_)
SpeedGain(bs) ==
  IF bs = <<>> THEN 0 ELSE (Head(bs).speed - 600) + SpeedGain(Tail(bs))

\* C23: while playing score = the sum over the balls of the collection of
\* (speed - 600) / 80, every ball's speed is 600 plus a non-negative
\* multiple of 80, and no step of a playing session lowers the score.
C23_ScoreIsSpeedGain ==
  /\ [](gameState = "playing" =>
          /\ 80 * score = SpeedGain(balls)
          /\ \A i \in 1..Len(balls) :
               balls[i].speed >= 600 /\ (balls[i].speed - 600) % 80 = 0)
  /\ [][gameState = "playing" => score' >= score]_vars

\* Three balls in play, the first of them hit once.
C23_Witness ==
  /\ gameState = "playing"
  /\ score = 1
  /\ Len(balls) = 3
  /\ balls[1].speed = 680
  /\ balls[2].speed = 600
  /\ balls[3].speed = 600

\* ------------------------------------------------------------------ C24
\* C24: while playing the collection holds at most 1 + floor(gameTime / 10)
\* balls; a frame tick adds at most one ball, whatever dt(); and
\* 0 <= lastBallSpawnTime <= gameTime in every state.
C24_SpawnPace ==
  /\ [](/\ gameState = "playing" => Len(balls) <= 1 + (gameTime \div 10)
        /\ 0 <= lastBallSpawnTime
        /\ lastBallSpawnTime <= gameTime)
  /\ [][PlayingTick => Len(balls') <= Len(balls) + 1]_vars

\* An agility session whose first frame took 20 seconds: two spawn
\* intervals went by in it and one ball was spawned.
C24_Witness ==
  /\ gameState = "playing"
  /\ gameMode = "agility"
  /\ frameDt = 20
  /\ gameTime = 20
  /\ lastBallSpawnTime = 20
  /\ Len(balls) = 2

\* ------------------------------------------------------------------ C25
\* C25: in every state at most one menu (one START GAME button, one of each
\* mode button) exists.
C25_MenuOnce == menuCount <= 1

\* ------------------------------------------------------------------ C26
Top == 60 * PX
Bottom == screenH * PX

\* While playing every ball of the collection is live and lies inside the
\* playfield: 0 <= x <= screenWidth and headerHeight < y < gameAreaBottom.
C26_Inside ==
  gameState = "playing" =>
    \A i \in 1..Len(balls) :
      /\ balls[i].exists
      /\ 0 <= balls[i].x /\ balls[i].x <= screenW * PX
      /\ Top < balls[i].y /\ balls[i].y < Bottom

\* In this frame tick the ball at index i, which starts 1 unit inside a wall
\* (where a reflection off that wall puts a ball), is reflected by that wall.
ReflectedAgain(i) ==
  LET a == Advanced(balls[i], frameDt')
  IN \/ balls[i].y = Top + PX /\ a.y <= Top
     \/ balls[i].y = Bottom - PX /\ a.y >= Bottom

\* C26 (as claimed): after every frame tick that leaves the game playing
\* every live ball is inside the playfield, and a ball reflected off a wall
\* in one tick is not reflected by the same wall in the next tick.
C26_NeverReflectedAgain ==
  /\ []C26_Inside
  /\ [][PlayingTick => \A i \in 1..Len(balls) : ~ReflectedAgain(i)]_vars

\* C26 (amended): after every frame tick that leaves the game playing every
\* live ball is inside the playfield; a ball reflected off a wall ends the
\* tick 1 unit inside that wall and moving away from it; and it is
\* reflected by the same wall in the next tick only if a paddle hit in
\* between has turned it back toward that wall: the ball has been hit, and
\* between two ticks of a session only a paddle hit changes a ball's
\* position or velocity.
C26_Step ==
  /\ (PlayingTick /\ gameState' = "playing") =>
       \A i \in 1..Len(balls) :
         LET a == Advanced(balls[i], frameDt')
         IN /\ a.y <= Top => (balls'[i].y = Top + PX /\ balls'[i].vy > 0)
            /\ a.y >= Bottom => (balls'[i].y = Bottom - PX /\ balls'[i].vy < 0)
            /\ ReflectedAgain(i) => balls[i].hits >= 1
  /\ (gameState = "playing" /\ gameTime' = gameTime /\ hitEvents' = hitEvents) =>
       /\ gameState' = "playing"
       /\ \A i \in 1..Len(balls) :
            /\ balls'[i].y = balls[i].y
            /\ balls'[i].vy = balls[i].vy

C26_InsideAndAway == []C26_Inside /\ [][C26_Step]_vars

\* The ball was reflected off the top wall where the left paddle stood, was
\* hit by the paddle above the paddle's centre, which sent it upward, and
\* has been reflected off the top wall again in the next tick.
C26_Witness ==
  /\ gameState = "playing"
  /\ balls[1].hits = 1
  /\ balls[1].y = Top + PX
  /\ balls[1].vx = 781
  /\ balls[1].vy = 625
  /\ balls[1].x = paddles[1].x + 781 * 680 * frameDt

====
